---- MODULE Spec2Model ----
(***************************************************************************)
(* Model of the deployment orchestrator of concourse-up                    *)
(* (src/concourse/deploy.go): Client.Deploy and the steps it calls.        *)
(*                                                                         *)
(* Every call to a collaborator (config store, IP resolver, DNS lookup,    *)
(* terraform, certificate generator, fly, BOSH, output streams) is         *)
(* recorded in the trace of the run, in call order, with its arguments and *)
(* whether it succeeded.  A collaborator may fail at any call.             *)
(*                                                                         *)
(* Strings that name hosts (domains, zone names, IP addresses) are         *)
(* sequences of labels, so that "" is << >> and strings.TrimSuffix can be  *)
(* computed.  PEM texts are records; kind "none" is the empty string.      *)
(* Time is counted in days.                                                *)
(***************************************************************************)
EXTENDS Integers, Sequences, FiniteSets, TLC

VARIABLES
    store,   \* the persisted Configuration of the deployment (config store)
    assets,  \* the two stored deployer blobs (director state, director creds)
    now,     \* the wall clock, in days
    run,     \* per process: the locals of its Deploy call and its position
    trace    \* per process: the collaborator calls of its current Deploy run

vars == <<store, assets, now, run, trace>>

\* Bounds of the model.
MaxRuns == 2          \* Deploy is run at most this many times
MaxReruns == 3        \* the same, where a failed run is run again

\* 28*24*time.Hour, in days
RenewalWindow == 28

\* Validity, in days, of a certificate when it is issued: one day more than
\* the renewal window, so that it is outside the window on the day of issue
\* and inside it from the next day on.
CertLifetime == RenewalWindow + 1

\* The last day on which a run starts: the day on which a certificate issued
\* on day 0 has entered its renewal window.
MaxDays == CertLifetime - RenewalWindow

Procs == {"p1", "p2"}

NoErr == "nil"
Empty == << >>         \* the empty string, for host names
NilBlob == "nil"       \* a nil []byte

----------------------------------------------------------------------------
\* PEM texts

NoPEM == [kind |-> "none", issuer |-> "", subject |-> << >>, notAfter |-> 0,
          serial |-> << >>]

PEM(kind, issuer, subject, notAfter, serial) ==
    [kind |-> kind, issuer |-> issuer, subject |-> subject, notAfter |-> notAfter,
     serial |-> serial]

\* The certificate generator: a new bundle for the named subjects, issued at
\* time t.  Every call makes a new key pair: serial tells the calls apart.
GeneratedBundle(subjects, t, serial) ==
    [CACert |-> PEM("ca", "generator", subjects, t + CertLifetime, serial),
     Cert   |-> PEM("cert", "generator", subjects, t + CertLifetime, serial),
     Key    |-> PEM("key", "generator", subjects, t + CertLifetime, serial)]

UserDomain == <<"ci", "sub", "example", "com">>
DirectorPrivateIP == <<"10.0.0.6">>

\* the certificate and key files a user passes as --tls-cert / --tls-key
UserCert == PEM("cert", "user", <<UserDomain>>, CertLifetime, << >>)
UserKey == PEM("key", "user", <<UserDomain>>, CertLifetime, << >>)

\* a file passed as --tls-cert that holds no PEM certificate: pem.Decode finds
\* no block in it, or x509.ParseCertificate fails on the block
MalformedCert == PEM("text", "user", <<UserDomain>>, CertLifetime, << >>)

----------------------------------------------------------------------------
\* Inputs of a run

\* The sizing flags go with the domain flag, as in ci/tasks/system-test.sh:
\* a deploy without --domain leaves the sizes at their defaults, a deploy
\* with --domain sets workers, worker size, web size and database size.
Sizing(domain) ==
    IF domain = Empty
    THEN [WorkerCount |-> 1, WorkerSize |-> "xlarge", WebSize |-> "small",
          DBSizeIsSet |-> FALSE, DBSize |-> ""]
    ELSE [WorkerCount |-> 2, WorkerSize |-> "large", WebSize |-> "medium",
          DBSizeIsSet |-> TRUE, DBSize |-> "large"]

Args(region, domain, tls, selfUpdate) ==
    [AWSRegion |-> region, Domain |-> domain, TLSCert |-> tls.TLSCert,
     TLSKey |-> tls.TLSKey, SelfUpdate |-> selfUpdate,
     WorkerCount |-> Sizing(domain).WorkerCount, WorkerSize |-> Sizing(domain).WorkerSize,
     WebSize |-> Sizing(domain).WebSize, DBSizeIsSet |-> Sizing(domain).DBSizeIsSet,
     DBSize |-> Sizing(domain).DBSize]

Domains == {Empty, UserDomain}
NoTLS == [TLSCert |-> NoPEM, TLSKey |-> NoPEM]
TLSPairs == {NoTLS, [TLSCert |-> UserCert, TLSKey |-> UserKey]}
MalformedTLS == [TLSCert |-> MalformedCert, TLSKey |-> UserKey]

\* the argument sets of a run: every combination of domain, certificate and
\* mode in one region, a deploy to another region, and a deploy with a
\* certificate file that holds no certificate
DeployArgs ==
    {Args("eu-west-1", d, t, su) : d \in Domains, t \in TLSPairs, su \in BOOLEAN}
        \cup {Args("us-east-1", Empty, NoTLS, FALSE)}
        \cup {Args("eu-west-1", UserDomain, MalformedTLS, FALSE)}

NoArgs == [AWSRegion |-> "", Domain |-> Empty, TLSCert |-> NoPEM, TLSKey |-> NoPEM,
           SelfUpdate |-> FALSE, WorkerCount |-> 0, WorkerSize |-> "", WebSize |-> "",
           DBSizeIsSet |-> FALSE, DBSize |-> ""]

\* config.DBSizes
DBSizes(size) == IF size = "large" THEN "db.m4.large" ELSE "db.t2.small"

\* what util.FindUserIP can answer
UserIPs == {<<"198.51.100.1">>}

\* what terraform Output can answer; the last one lacks a required output
Metadatas == {[ATCPublicIP |-> <<"203.0.113.1">>, DirectorPublicIP |-> <<"203.0.113.9">>],
              [ATCPublicIP |-> Empty, DirectorPublicIP |-> <<"203.0.113.9">>]}
NoMetadata == [ATCPublicIP |-> Empty, DirectorPublicIP |-> Empty]

\* metadata.AssertValid: every required output is present and non-empty
AssertValid(metadata) ==
    metadata.ATCPublicIP # Empty /\ metadata.DirectorPublicIP # Empty

\* the hosted zones of the account, by name, with their IDs
HostedZones == {[name |-> <<"example", "com">>, id |-> "Z1"],
                [name |-> <<"sub", "example", "com">>, id |-> "Z2"]}

HasSuffix(s, suffix) ==
    /\ Len(suffix) <= Len(s)
    /\ SubSeq(s, Len(s) - Len(suffix) + 1, Len(s)) = suffix

\* strings.TrimSuffix(domain, "." + zoneName)
TrimSuffix(domain, zoneName) ==
    IF Len(zoneName) < Len(domain) /\ HasSuffix(domain, zoneName)
    THEN SubSeq(domain, 1, Len(domain) - Len(zoneName))
    ELSE domain

\* iaasClient.FindLongestMatchingHostedZone
FindLongestMatchingHostedZone(domain) ==
    LET matching == {z \in HostedZones : HasSuffix(domain, z.name)}
    IN  CHOOSE z \in matching : \A y \in matching : Len(y.name) <= Len(z.name)

\* what the BOSH deployer can hand back as state and as credentials, and
\* that it succeeded or not
BoshOutcomes ==
    {[state |-> "state-A", creds |-> "creds-A", ok |-> TRUE],
     [state |-> "state-A", creds |-> "creds-not-yaml", ok |-> TRUE],
     [state |-> "state-A", creds |-> "creds-A", ok |-> FALSE]}

\* yaml.Unmarshal(boshCredsBytes, &cc)
YamlValid(blob) == blob # "creds-not-yaml"
YamlPassword(blob) == IF blob = "creds-A" THEN "password-A" ELSE ""
YamlCACert(blob) == IF blob = "creds-A" THEN "ca-A" ELSE ""

----------------------------------------------------------------------------
\* The Configuration record (config.Config)

\* the Configuration LoadOrCreate makes when the store holds none
DefaultConfig ==
    [Region |-> "", Domain |-> Empty, SourceAccessIP |-> Empty,
     HostedZoneID |-> "", HostedZoneRecordPrefix |-> Empty,
     RDSInstanceClass |-> "db.t2.small",
     DirectorCACert |-> NoPEM, DirectorCert |-> NoPEM, DirectorKey |-> NoPEM,
     DirectorPublicIP |-> Empty,
     ConcourseCert |-> NoPEM, ConcourseKey |-> NoPEM, ConcourseCACert |-> NoPEM,
     ConcourseUserProvidedCert |-> FALSE,
     ConcourseWorkerCount |-> 0, ConcourseWorkerSize |-> "", ConcourseWebSize |-> "",
     CredhubCACert |-> "", CredhubPassword |-> "", CredhubURL |-> Empty,
     CredhubUsername |-> ""]

\* a call to a collaborator, as the trace records it
Call(op, arg, ok) == [op |-> op, arg |-> arg, ok |-> ok]

IdleRun ==
    [pc |-> "idle", args |-> NoArgs, config |-> DefaultConfig, loaded |-> DefaultConfig,
     createdNewConfig |-> FALSE, isDomainUpdated |-> FALSE, metadata |-> NoMetadata,
     boshStateBytes |-> NilBlob, boshCredsBytes |-> NilBlob, err |-> NoErr,
     result |-> NoErr, runs |-> 0, identicalRerun |-> FALSE, alone |-> TRUE]

Init ==
    /\ store = [exists |-> FALSE, config |-> DefaultConfig]
    /\ assets = [state |-> NilBlob, creds |-> NilBlob, hasState |-> FALSE, hasCreds |-> FALSE]
    /\ now = 0
    /\ run = [p \in Procs |-> IdleRun]
    /\ trace = [p \in Procs |-> << >>]

----------------------------------------------------------------------------
\* Helpers for the steps of a run

\* the step of process p leaves it with locals r2 and makes the calls
Step(p, r2, calls) ==
    /\ run' = [run EXCEPT ![p] = r2]
    /\ trace' = [trace EXCEPT ![p] = @ \o calls]

\* Deploy returns err before a fly client exists
DeployReturn(r, err) == [r EXCEPT !.pc = "done", !.result = err]

\* the deferred flyClient.Cleanup() of Deploy
FlyCleanup == <<Call("flyClient.Cleanup", << >>, TRUE)>>

\* the deferred terraformClient.Cleanup() of applyTerraform
TerraformCleanup == <<Call("terraformClient.Cleanup", << >>, TRUE)>>

\* the deferred boshClient.Cleanup() of deployBosh
BoshCleanup == <<Call("boshClient.Cleanup", << >>, TRUE)>>

\* the return of deployBosh(config, metadata, detach), as the trace records it:
\* ok is that it returned nil
DeployBoshReturned(detach, ok) == <<Call("deployBosh returns", detach, ok)>>

\* configClient.LoadOrCreate: the stored Configuration, or a new default one
LoadOrCreate(st) == IF st.exists THEN st.config ELSE DefaultConfig

\* an isDomainUpdated that is true in every run
IsDomainUpdatedAlways(args, config) == TRUE

\* isDomainUpdated := client.deployArgs.Domain != config.Domain
IsDomainUpdated(args, config) == args.Domain # config.Domain

\* a region test that lets every region pass
RegionConflictDropped(conf, region) == FALSE

\* the region test of checkPreTerraformConfigRequirements
RegionConflict(conf, region) == conf.Region # "" /\ conf.Region # region

\* where a run goes when deployBosh has returned nil
AfterDeployBosh(r) ==
    IF r.args.SelfUpdate THEN "writeUpgradeRunning" ELSE "setDefaultPipeline"

----------------------------------------------------------------------------
\* args are the arguments of the successful run that came just before
IdenticalRerun(last, args) ==
    last.pc = "done" /\ last.result = NoErr /\ last.args = args

\* the number of Deploy runs that were started, by all processes
RunsStarted == run["p1"].runs + run["p2"].runs

\* no other process than p is in the middle of a Deploy run
RunsAlone(p) == \A q \in Procs \ {p} : run[q].pc \in {"idle", "done"}

\* Deploy, lines 24-29, and loadConfig.  The clock is read in one step of a
\* run only (ensureConcourseCerts): the days that have passed since the run
\* before are counted when the run starts.

StartRun(p, argsets) ==
    /\ run[p].pc \in {"idle", "done"}
    /\ UNCHANGED assets
    /\ \E today \in now..MaxDays : now' = today
    /\ \E args \in argsets, outcome \in {"loadErr", "writeErr", "ok"} :
         LET r == [IdleRun EXCEPT !.args = args,
                                  !.runs = run[p].runs + 1,
                                  !.identicalRerun = IdenticalRerun(run[p], args),
                                  !.alone = RunsAlone(p)]
             cfg == LoadOrCreate(store)
             created == ~store.exists
             loaded == [r EXCEPT !.config = cfg, !.loaded = cfg,
                                 !.createdNewConfig = created,
                                 !.isDomainUpdated = IsDomainUpdated(args, cfg)]
             msg == IF created THEN << >>
                    ELSE <<Call("stdout.Write", "USING PREVIOUS DEPLOYMENT CONFIG",
                                outcome # "writeErr")>>
         IN  CASE outcome = "loadErr" ->
                    /\ run' = [run EXCEPT ![p] = DeployReturn(r, "LoadOrCreate error")]
                    /\ trace' = [trace EXCEPT ![p] = <<Call("LoadOrCreate", args, FALSE)>>]
                    /\ UNCHANGED store
               [] outcome = "writeErr" ->
                    /\ ~created
                    /\ run' = [run EXCEPT ![p] = DeployReturn(loaded, "stdout error")]
                    /\ trace' = [trace EXCEPT ![p] = <<Call("LoadOrCreate", args, TRUE)>> \o msg]
                    /\ UNCHANGED store
               [] outcome = "ok" ->
                    /\ run' = [run EXCEPT ![p] = [loaded EXCEPT !.pc = "checkPreTerraform"]]
                    /\ trace' = [trace EXCEPT ![p] = <<Call("LoadOrCreate", args, TRUE)>> \o msg]
                    /\ store' = [exists |-> TRUE, config |-> cfg]

\* a run of Deploy starts, one after the other in the same process p
LoadConfig(p) ==
    /\ RunsStarted < MaxRuns
    /\ StartRun(p, DeployArgs)

\* checkPreTerraformConfigRequirements, lines 116-129
CheckRegion(p) ==
    LET r == run[p]
        region == r.args.AWSRegion
        conf == [r.config EXCEPT
                    !.Region = region,
                    !.RDSInstanceClass =
                        IF r.args.DBSizeIsSet THEN DBSizes(r.args.DBSize) ELSE @]
    IN  /\ r.pc = "checkPreTerraform"
        /\ UNCHANGED <<store, assets, now>>
        /\ IF RegionConflict(r.config, region)
           THEN Step(p, DeployReturn(r, "region error"), << >>)
           ELSE Step(p, [r EXCEPT !.config = conf,
                                  !.pc = IF r.args.SelfUpdate THEN "setHostedZone"
                                         ELSE "setUserIP"], << >>)

\* a setUserIP that never finds the address changed
UserIPChangedNever(config, userIP) == FALSE

\* setUserIP, line 329
UserIPChanged(config, userIP) == config.SourceAccessIP # userIP

\* setUserIP
SetUserIP(p) ==
    LET r == run[p] IN
    /\ r.pc = "setUserIP"
    /\ UNCHANGED <<assets, now>>
    /\ \E userIP \in UserIPs, outcome \in {"findErr", "writeErr", "updateErr", "ok"} :
         LET changed == UserIPChanged(r.config, userIP)
             conf == IF changed THEN [r.config EXCEPT !.SourceAccessIP = userIP]
                     ELSE r.config
             find == <<Call("FindUserIP", IF outcome = "findErr" THEN Empty ELSE userIP,
                            outcome # "findErr")>>
             warn == <<Call("stderr.Write", <<"allowing access from", userIP>>,
                            outcome # "writeErr")>>
             upd == <<Call("Update", conf, outcome # "updateErr")>>
         IN  CASE outcome = "findErr" ->
                    /\ Step(p, DeployReturn(r, "FindUserIP error"), find)
                    /\ UNCHANGED store
               [] outcome = "writeErr" ->
                    /\ changed
                    /\ Step(p, DeployReturn([r EXCEPT !.config = conf], "stderr error"),
                            find \o warn)
                    /\ UNCHANGED store
               [] outcome = "updateErr" ->
                    /\ changed
                    /\ Step(p, DeployReturn([r EXCEPT !.config = conf], "Update error"),
                            find \o warn \o upd)
                    /\ UNCHANGED store
               [] outcome = "ok" ->
                    /\ Step(p, [r EXCEPT !.config = conf, !.pc = "setHostedZone"],
                            IF changed THEN find \o warn \o upd ELSE find)
                    /\ store' = IF changed THEN [store EXCEPT !.config = conf] ELSE store

\* setHostedZone
SetHostedZone(p) ==
    LET r == run[p]
        domain == r.args.Domain
    IN
    /\ r.pc = "setHostedZone"
    /\ UNCHANGED <<assets, now>>
    /\ IF domain = Empty
       THEN Step(p, [r EXCEPT !.pc = "applyTerraform"], << >>) /\ UNCHANGED store
       ELSE \E outcome \in {"findErr", "writeErr", "updateErr", "ok"} :
              LET zone == FindLongestMatchingHostedZone(domain)
                  conf == [r.config EXCEPT
                              !.HostedZoneID = zone.id,
                              !.HostedZoneRecordPrefix = TrimSuffix(domain, zone.name),
                              !.Domain = domain]
                  find == <<Call("FindLongestMatchingHostedZone", domain,
                                 outcome # "findErr")>>
                  warn == <<Call("stderr.Write", <<"adding record", domain, zone.name, zone.id>>,
                                 outcome # "writeErr")>>
                  upd == <<Call("Update", conf, outcome # "updateErr")>>
              IN  CASE outcome = "findErr" ->
                         /\ Step(p, DeployReturn(r, "hosted zone error"), find)
                         /\ UNCHANGED store
                    [] outcome = "writeErr" ->
                         /\ Step(p, DeployReturn([r EXCEPT !.config = conf], "stderr error"),
                                 find \o warn)
                         /\ UNCHANGED store
                    [] outcome = "updateErr" ->
                         /\ Step(p, DeployReturn([r EXCEPT !.config = conf], "Update error"),
                                 find \o warn \o upd)
                         /\ UNCHANGED store
                    [] outcome = "ok" ->
                         /\ Step(p, [r EXCEPT !.config = conf, !.pc = "applyTerraform"],
                                 find \o warn \o upd)
                         /\ store' = [store EXCEPT !.config = conf]

\* applyTerraform
ApplyTerraform(p) ==
    LET r == run[p] IN
    /\ r.pc = "applyTerraform"
    /\ UNCHANGED <<store, assets, now>>
    /\ \E metadata \in Metadatas, outcome \in {"factoryErr", "applyErr", "outputErr", "done"} :
         LET factory == <<Call("terraformClientFactory", r.config, outcome # "factoryErr")>>
             apply == <<Call("terraformClient.Apply", FALSE, outcome # "applyErr")>>
             output == <<Call("terraformClient.Output",
                              IF outcome = "outputErr" THEN NoMetadata ELSE metadata,
                              outcome # "outputErr")>>
         IN  CASE outcome = "factoryErr" ->
                    Step(p, DeployReturn(r, "terraform factory error"), factory)
               [] outcome = "applyErr" ->
                    Step(p, DeployReturn(r, "terraform Apply error"),
                         factory \o apply \o TerraformCleanup)
               [] outcome = "outputErr" ->
                    Step(p, DeployReturn(r, "terraform Output error"),
                         factory \o apply \o output \o TerraformCleanup)
               [] outcome = "done" ->
                    IF AssertValid(metadata)
                    THEN Step(p, [r EXCEPT !.metadata = metadata, !.pc = "ensureDirectorCerts"],
                              factory \o apply \o output \o TerraformCleanup)
                    ELSE Step(p, DeployReturn(r, "invalid metadata"),
                              factory \o apply \o output \o TerraformCleanup)

----------------------------------------------------------------------------
\* Certificate lifecycle

\* a test of ensureDirectorCerts that never finds director certificates
HasDirectorCertsNever(config) == FALSE

\* the test of ensureDirectorCerts: director certificates are already there
HasDirectorCerts(config) == config.DirectorCACert # NoPEM

\* a timeTillExpiry that reads a validity out of any text
TimeTillExpiryOfAnyText(cert, t) == cert.notAfter - t

\* timeTillExpiry at time t: zero for a text that is no PEM certificate
TimeTillExpiry(cert, t) ==
    IF cert.kind # "cert" THEN 0 ELSE cert.notAfter - t

\* a test of ensureConcourseCerts that renews with 28 days or more left
KeepConcourseCertsEarly(domainUpdated, config, t) ==
    /\ config.ConcourseCert # NoPEM
    /\ ~domainUpdated
    /\ TimeTillExpiry(config.ConcourseCert, t) > RenewalWindow + 1

\* the test of ensureConcourseCerts: keep the stored application bundle
KeepConcourseCerts(domainUpdated, config, t) ==
    /\ config.ConcourseCert # NoPEM
    /\ ~domainUpdated
    /\ TimeTillExpiry(config.ConcourseCert, t) > RenewalWindow

\* ensureConcourseCerts, lines 211-217: a certificate was passed in
UserCertSupplied(args) == args.TLSCert # NoPEM

\* an adoption of the user's certificate that leaves the old key in place
AdoptUserCertOnly(config, args) ==
    [config EXCEPT !.ConcourseCert = args.TLSCert,
                   !.ConcourseUserProvidedCert = TRUE]

AdoptUserCert(config, args) ==
    [config EXCEPT !.ConcourseCert = args.TLSCert,
                   !.ConcourseKey = args.TLSKey,
                   !.ConcourseUserProvidedCert = TRUE]

\* ensureConcourseCerts, lines 231-233
SetConcourseCerts(config, bundle) ==
    [config EXCEPT !.ConcourseCert = bundle.Cert,
                   !.ConcourseKey = bundle.Key,
                   !.ConcourseCACert = bundle.CACert]

\* ensureDirectorCerts, lines 191-193
SetDirectorCerts(config, bundle) ==
    [config EXCEPT !.DirectorCACert = bundle.CACert,
                   !.DirectorCert = bundle.Cert,
                   !.DirectorKey = bundle.Key]

\* a checkPreDeployConfigRequiments that leaves the domain as it is
SetDomainFromMetadataSkipped(config, args, metadata) == config

\* checkPreDeployConfigRequiments, lines 146-148
SetDomainFromMetadata(config, args, metadata) ==
    IF args.Domain = Empty THEN [config EXCEPT !.Domain = metadata.ATCPublicIP]
    ELSE config

\* checkPreDeployConfigRequiments, lines 146-150, and ensureDirectorCerts
EnsureDirectorCerts(p) ==
    LET r == run[p]
        conf == SetDomainFromMetadata(r.config, r.args, r.metadata)
        ip == r.metadata.DirectorPublicIP
        subjects == <<ip, DirectorPrivateIP>>
    IN
    /\ r.pc = "ensureDirectorCerts"
    /\ UNCHANGED <<store, assets, now>>
    /\ IF HasDirectorCerts(conf)
       THEN Step(p, [r EXCEPT !.config = conf, !.pc = "ensureConcourseCerts"], << >>)
       ELSE \E outcome \in {"writeErr", "genErr", "ok"} :
              LET msg == <<Call("stdout.Write",
                                <<"GENERATING BOSH DIRECTOR CERTIFICATE", ip, DirectorPrivateIP>>,
                                outcome # "writeErr")>>
                  gen == <<Call("certGenerator", subjects, outcome # "genErr")>>
              IN  CASE outcome = "writeErr" ->
                         Step(p, DeployReturn([r EXCEPT !.config = conf], "stdout error"), msg)
                    [] outcome = "genErr" ->
                         Step(p, DeployReturn([r EXCEPT !.config = conf],
                                              "certGenerator error"), msg \o gen)
                    [] outcome = "ok" ->
                         Step(p, [r EXCEPT
                                     !.config = SetDirectorCerts(conf,
                                         GeneratedBundle(subjects, now, <<p, r.runs, "director">>)),
                                     !.pc = "ensureConcourseCerts"],
                              msg \o gen)

\* ensureConcourseCerts
EnsureConcourseCerts(p) ==
    LET r == run[p]
        subjects == <<r.config.Domain>>
    IN
    /\ r.pc = "ensureConcourseCerts"
    /\ UNCHANGED <<store, assets, now>>
    /\ IF UserCertSupplied(r.args)
       THEN Step(p, [r EXCEPT !.config = AdoptUserCert(r.config, r.args),
                              !.pc = "checkPreDeployUpdate"], << >>)
       ELSE IF KeepConcourseCerts(r.isDomainUpdated, r.config, now)
       THEN Step(p, [r EXCEPT !.pc = "checkPreDeployUpdate"], << >>)
       ELSE \E ok \in BOOLEAN :
              IF ok
              THEN Step(p, [r EXCEPT
                               !.config = SetConcourseCerts(r.config,
                                   GeneratedBundle(subjects, now, <<p, r.runs, "concourse">>)),
                               !.pc = "checkPreDeployUpdate"],
                        <<Call("certGenerator", subjects, TRUE)>>)
              ELSE Step(p, DeployReturn(r, "certGenerator error"),
                        <<Call("certGenerator", subjects, FALSE)>>)

\* checkPreDeployConfigRequiments, lines 160-163
SetSizing(config, args, metadata) ==
    [config EXCEPT !.ConcourseWorkerCount = args.WorkerCount,
                   !.ConcourseWorkerSize = args.WorkerSize,
                   !.ConcourseWebSize = args.WebSize,
                   !.DirectorPublicIP = metadata.DirectorPublicIP]

\* checkPreDeployConfigRequiments, lines 160-170
CheckPreDeployUpdate(p) ==
    LET r == run[p]
        conf == SetSizing(r.config, r.args, r.metadata)
    IN
    /\ r.pc = "checkPreDeployUpdate"
    /\ UNCHANGED <<assets, now>>
    /\ \E ok \in BOOLEAN :
         IF ok
         THEN /\ Step(p, [r EXCEPT !.config = conf, !.pc = "flyClientFactory"],
                      <<Call("Update", conf, TRUE)>>)
              /\ store' = [store EXCEPT !.config = conf]
         ELSE /\ Step(p, DeployReturn([r EXCEPT !.config = conf], "Update error"),
                      <<Call("Update", conf, FALSE)>>)
              /\ UNCHANGED store

----------------------------------------------------------------------------
\* Deploy, lines 45-68: the fly client and the two orders of the mode branch

\* a Deploy that takes the fresh order in both modes
AfterFlyClientDeployFirst(r) == "buildBoshClient"

\* Deploy, lines 59-63: the first step of the branch taken
AfterFlyClient(r) ==
    IF r.args.SelfUpdate THEN "canConnect" ELSE "buildBoshClient"

\* where a run goes when SetDefaultPipeline has returned nil
AfterSetDefaultPipeline(r) ==
    IF r.args.SelfUpdate THEN "buildBoshClient" ELSE "writeDeploySuccess"

\* the allowVersionMismatch argument of SetDefaultPipeline, lines 77 and 102
AllowVersionMismatch(r) == r.args.SelfUpdate

\* the detach argument of deployBosh, lines 73 and 106
Detach(r) == r.args.SelfUpdate

\* a Deploy that returns without the deferred Cleanup of its fly client
DeployReturnFlyNoCleanup(p, r, err, calls) ==
    Step(p, DeployReturn(r, err), calls)

\* Deploy returns err once the fly client exists
DeployReturnFly(p, r, err, calls) ==
    Step(p, DeployReturn(r, err), calls \o FlyCleanup)

FlyClientFactory(p) ==
    LET r == run[p]
        creds == [Target |-> "deployment", API |-> r.config.Domain]
    IN
    /\ r.pc = "flyClientFactory"
    /\ UNCHANGED <<store, assets, now>>
    /\ \E ok \in BOOLEAN :
         IF ok
         THEN Step(p, [r EXCEPT !.pc = AfterFlyClient(r)],
                   <<Call("flyClientFactory", creds, TRUE)>>)
         ELSE Step(p, DeployReturn(r, "fly client error"),
                   <<Call("flyClientFactory", creds, FALSE)>>)

\* an updateBoshAndPipeline that goes on when concourse is not running
NotRunningIgnored(p, r, calls) ==
    Step(p, [r EXCEPT !.pc = "setDefaultPipeline"], calls)

\* updateBoshAndPipeline, lines 97-99: concourse is not running
NotRunning(p, r, calls) ==
    DeployReturnFly(p, r, "concourse is not currently running", calls)

\* updateBoshAndPipeline, lines 92-99
CanConnect(p) ==
    LET r == run[p] IN
    /\ r.pc = "canConnect"
    /\ UNCHANGED <<store, assets, now>>
    /\ \E outcome \in {"err", "notRunning", "running"} :
         CASE outcome = "err" ->
                DeployReturnFly(p, r, "CanConnect error",
                                <<Call("CanConnect", FALSE, FALSE)>>)
           [] outcome = "notRunning" ->
                NotRunning(p, r, <<Call("CanConnect", FALSE, TRUE)>>)
           [] outcome = "running" ->
                Step(p, [r EXCEPT !.pc = "setDefaultPipeline"],
                     <<Call("CanConnect", TRUE, TRUE)>>)

\* flyClient.SetDefaultPipeline, lines 77-79 and 102-104
SetDefaultPipeline(p) ==
    LET r == run[p] IN
    /\ r.pc = "setDefaultPipeline"
    /\ UNCHANGED <<store, assets, now>>
    /\ \E ok \in BOOLEAN :
         IF ok
         THEN Step(p, [r EXCEPT !.pc = AfterSetDefaultPipeline(r)],
                   <<Call("SetDefaultPipeline", AllowVersionMismatch(r), TRUE)>>)
         ELSE DeployReturnFly(p, r, "SetDefaultPipeline error",
                              <<Call("SetDefaultPipeline", AllowVersionMismatch(r), FALSE)>>)

----------------------------------------------------------------------------
\* deployBosh

\* deployBosh returns nil once the BOSH client exists: the run goes on
DeployBoshReturnNil(p, r, calls) ==
    Step(p, [r EXCEPT !.pc = AfterDeployBosh(r)],
         calls \o BoshCleanup \o DeployBoshReturned(Detach(r), TRUE))

\* deployBosh returns err once the BOSH client exists: so does Deploy
DeployBoshReturnErr(p, r, err, calls) ==
    DeployReturnFly(p, r, err, calls \o BoshCleanup \o DeployBoshReturned(Detach(r), FALSE))

\* deployBosh, lines 262-266
BuildBoshClient(p) ==
    LET r == run[p] IN
    /\ r.pc = "buildBoshClient"
    /\ UNCHANGED <<store, assets, now>>
    /\ \E ok \in BOOLEAN :
         IF ok
         THEN Step(p, [r EXCEPT !.pc = "loadDirectorState"],
                   <<Call("buildBoshClient", r.metadata, TRUE)>>)
         ELSE DeployReturnFly(p, r, "bosh client error",
                              <<Call("buildBoshClient", r.metadata, FALSE)>>
                                  \o DeployBoshReturned(Detach(r), FALSE))

\* deployBosh, lines 268-271, and loadDirectorState
LoadDirectorState(p) ==
    LET r == run[p] IN
    /\ r.pc = "loadDirectorState"
    /\ UNCHANGED <<store, assets, now>>
    /\ \E outcome \in {"hasErr", "loadErr", "ok"} :
         LET has == <<Call("HasAsset", "director-state", outcome # "hasErr")>>
             load == IF assets.hasState
                     THEN <<Call("LoadAsset", "director-state", outcome # "loadErr")>>
                     ELSE << >>
         IN  CASE outcome = "hasErr" -> DeployBoshReturnNil(p, r, has)
               [] outcome = "loadErr" ->
                    assets.hasState /\ DeployBoshReturnNil(p, r, has \o load)
               [] outcome = "ok" ->
                    Step(p, [r EXCEPT !.boshStateBytes =
                                          IF assets.hasState THEN assets.state ELSE NilBlob,
                                      !.pc = "loadDirectorCreds"],
                         has \o load)

\* deployBosh, lines 272-275, and loadDirectorCreds
LoadDirectorCreds(p) ==
    LET r == run[p] IN
    /\ r.pc = "loadDirectorCreds"
    /\ UNCHANGED <<store, assets, now>>
    /\ \E outcome \in {"hasErr", "loadErr", "ok"} :
         LET has == <<Call("HasAsset", "director-creds", outcome # "hasErr")>>
             load == IF assets.hasCreds
                     THEN <<Call("LoadAsset", "director-creds", outcome # "loadErr")>>
                     ELSE << >>
         IN  CASE outcome = "hasErr" -> DeployBoshReturnNil(p, r, has)
               [] outcome = "loadErr" ->
                    assets.hasCreds /\ DeployBoshReturnNil(p, r, has \o load)
               [] outcome = "ok" ->
                    Step(p, [r EXCEPT !.boshCredsBytes =
                                          IF assets.hasCreds THEN assets.creds ELSE NilBlob,
                                      !.pc = "boshDeploy"],
                         has \o load)

\* an accumulator in which the last error wins
LastError(err, err1) == IF err1 # NoErr THEN err1 ELSE err

\* err = err1 unless an earlier error is held (lines 279-281, 283-285)
FirstError(err, err1) == IF err = NoErr THEN err1 ELSE err

\* deployBosh, line 277.  The call is recorded with its three arguments and,
\* after them, the two blobs it returned.
BoshDeploy(p) ==
    LET r == run[p] IN
    /\ r.pc = "boshDeploy"
    /\ UNCHANGED <<store, assets, now>>
    /\ \E out \in BoshOutcomes :
         Step(p, [r EXCEPT !.boshStateBytes = out.state, !.boshCredsBytes = out.creds,
                           !.err = IF out.ok THEN NoErr ELSE "bosh Deploy error",
                           !.pc = "storeState"],
              <<Call("boshClient.Deploy",
                     <<r.boshStateBytes, r.boshCredsBytes, Detach(r), out.state, out.creds>>,
                     out.ok)>>)

\* deployBosh, lines 278-281
StoreState(p) ==
    LET r == run[p] IN
    /\ r.pc = "storeState"
    /\ UNCHANGED <<store, now>>
    /\ \E ok \in BOOLEAN :
         /\ Step(p, [r EXCEPT !.err = FirstError(r.err, IF ok THEN NoErr
                                                         ELSE "StoreAsset state error"),
                              !.pc = "storeCreds"],
                 <<Call("StoreAsset", <<"director-state", r.boshStateBytes>>, ok)>>)
         /\ assets' = IF ok THEN [assets EXCEPT !.state = r.boshStateBytes, !.hasState = TRUE]
                      ELSE assets

\* deployBosh, lines 301-304
SetCredhub(config, creds, metadata) ==
    [config EXCEPT !.CredhubCACert = YamlCACert(creds),
                   !.CredhubPassword = YamlPassword(creds),
                   !.CredhubURL = <<"https", metadata.ATCPublicIP, "8844">>,
                   !.CredhubUsername = "credhub-cli"]

\* deployBosh, lines 282-306
StoreCreds(p) ==
    LET r == run[p] IN
    /\ r.pc = "storeCreds"
    /\ UNCHANGED <<store, now>>
    /\ \E ok \in BOOLEAN :
         LET err == FirstError(r.err, IF ok THEN NoErr ELSE "StoreAsset creds error")
             call == <<Call("StoreAsset", <<"director-creds", r.boshCredsBytes>>, ok)>>
         IN  /\ assets' = IF ok THEN [assets EXCEPT !.creds = r.boshCredsBytes,
                                                    !.hasCreds = TRUE]
                          ELSE assets
             /\ IF err # NoErr
                THEN DeployBoshReturnErr(p, [r EXCEPT !.err = err], err, call)
                ELSE IF ~YamlValid(r.boshCredsBytes)
                THEN DeployBoshReturnErr(p, [r EXCEPT !.err = "yaml error"], "yaml error", call)
                ELSE DeployBoshReturnNil(p,
                        [r EXCEPT !.config = SetCredhub(r.config, r.boshCredsBytes, r.metadata)],
                        call)

----------------------------------------------------------------------------
\* The ends of the two branches, and Deploy's last step

\* deployBoshAndPipeline, lines 81-85
WriteDeploySuccess(p) ==
    LET r == run[p] IN
    /\ r.pc = "writeDeploySuccess"
    /\ UNCHANGED <<store, assets, now>>
    /\ \E ok \in BOOLEAN :
         LET msg == <<Call("stdout.Write",
                           <<"DEPLOY SUCCESSFUL", r.config.Domain, r.config.Region,
                             r.config.ConcourseUserProvidedCert>>, ok)>>
         IN  IF ok THEN Step(p, [r EXCEPT !.pc = "finalUpdate"], msg)
             ELSE DeployReturnFly(p, r, "stdout error", msg)

\* updateBoshAndPipeline, lines 110-112
WriteUpgradeRunning(p) ==
    LET r == run[p] IN
    /\ r.pc = "writeUpgradeRunning"
    /\ UNCHANGED <<store, assets, now>>
    /\ \E ok \in BOOLEAN :
         LET msg == <<Call("stdout.Write", "UPGRADE RUNNING IN BACKGROUND", ok)>>
         IN  IF ok THEN Step(p, [r EXCEPT !.pc = "finalUpdate"], msg)
             ELSE DeployReturnFly(p, r, "stdout error", msg)

\* a Deploy whose last Update does not reach the store
FinalUpdateDropped(p) ==
    LET r == run[p] IN
    /\ r.pc = "finalUpdate"
    /\ UNCHANGED <<store, assets, now>>
    /\ DeployReturnFly(p, r, NoErr, <<Call("Update", r.config, TRUE)>>)

\* Deploy, lines 64-68
FinalUpdate(p) ==
    LET r == run[p] IN
    /\ r.pc = "finalUpdate"
    /\ UNCHANGED <<assets, now>>
    /\ \E ok \in BOOLEAN :
         /\ DeployReturnFly(p, r, IF ok THEN NoErr ELSE "Update error",
                            <<Call("Update", r.config, ok)>>)
         /\ store' = IF ok THEN [store EXCEPT !.config = r.config] ELSE store

\* one step of a Deploy run of process p that has loaded its Configuration
RunStep(p) ==
    \/ CheckRegion(p)
    \/ SetUserIP(p)
    \/ SetHostedZone(p)
    \/ ApplyTerraform(p)
    \/ EnsureDirectorCerts(p)
    \/ EnsureConcourseCerts(p)
    \/ CheckPreDeployUpdate(p)
    \/ FlyClientFactory(p)
    \/ CanConnect(p)
    \/ SetDefaultPipeline(p)
    \/ BuildBoshClient(p)
    \/ LoadDirectorState(p)
    \/ LoadDirectorCreds(p)
    \/ BoshDeploy(p)
    \/ StoreState(p)
    \/ StoreCreds(p)
    \/ WriteDeploySuccess(p)
    \/ WriteUpgradeRunning(p)
    \/ FinalUpdate(p)

\* one step of the Deploy run of process p
DeployStep(p) == LoadConfig(p) \/ RunStep(p)

\* One orchestrator process at a time runs against the deployment: the
\* caller serialises the runs.
Next == DeployStep("p1")

Spec == Init /\ [][Next]_vars

\* Two orchestrator processes run against the same deployment name and
\* nothing serialises them: their steps interleave.  Each process is one
\* invocation of the command and runs Deploy once: one deploys to a domain,
\* the other is a self-update without a domain argument.
ConcurrentArgs ==
    {Args("eu-west-1", UserDomain, NoTLS, FALSE), Args("eu-west-1", Empty, NoTLS, TRUE)}

ConcurrentLoadConfig(p) ==
    /\ run[p].runs = 0
    /\ StartRun(p, ConcurrentArgs)

ConcurrentNext == \E p \in Procs : ConcurrentLoadConfig(p) \/ RunStep(p)

ConcurrentSpec == Init /\ [][ConcurrentNext]_vars

\* Runs that fail partway and are run again: a deployment is made without a
\* domain, is then given a domain, and is updated by itself.
RerunArgs ==
    {Args("eu-west-1", Empty, NoTLS, FALSE), Args("eu-west-1", UserDomain, NoTLS, FALSE),
     Args("eu-west-1", UserDomain, NoTLS, TRUE)}

RerunLoadConfig(p) ==
    /\ RunsStarted < MaxReruns
    /\ StartRun(p, RerunArgs)

RerunNext == RerunLoadConfig("p1") \/ RunStep("p1")

RerunSpec == Init /\ [][RerunNext]_vars

----------------------------------------------------------------------------
\* Reading the trace of a run

\* the run of p has loaded its Configuration
Loaded(p) ==
    /\ run[p].pc # "idle"
    /\ trace[p] # << >>
    /\ trace[p][1].op = "LoadOrCreate"
    /\ trace[p][1].ok

\* the places of the calls of op in the trace of p
CallsOf(p, op) == {i \in 1..Len(trace[p]) : trace[p][i].op = op}

\* a call of the certificate generator for the director bundle
IsDirectorGen(c) ==
    c.op = "certGenerator" /\ Len(c.arg) = 2 /\ c.arg[2] = DirectorPrivateIP

\* a call of the certificate generator for the application bundle
IsConcourseGen(c) == c.op = "certGenerator" /\ Len(c.arg) = 1

NoDirectorGen(tr) == \A i \in 1..Len(tr) : ~IsDirectorGen(tr[i])
NoConcourseGen(tr) == \A i \in 1..Len(tr) : ~IsConcourseGen(tr[i])

DirectorBundle(config) ==
    <<config.DirectorCACert, config.DirectorCert, config.DirectorKey>>
ConcourseBundle(config) ==
    <<config.ConcourseCert, config.ConcourseKey, config.ConcourseCACert>>

\* the places of the calls of op that succeeded, in the trace of p
OKCalls(p, op) == {i \in CallsOf(p, op) : trace[p][i].ok}

\* the run of p has come back with success
Succeeded(p) == run[p].pc = "done" /\ run[p].result = NoErr

----------------------------------------------------------------------------
\* The claims

\* the run of p loaded a Configuration of another region than the one asked for
RegionMismatch(p) ==
    /\ Loaded(p)
    /\ run[p].loaded.Region # ""
    /\ run[p].loaded.Region # run[p].args.AWSRegion

\* C1: a run whose loaded Configuration has a non-empty Region other than
\* the requested one returns an error, and neither the terraform client
\* factory nor terraform Apply is called in it.
C1_RegionMismatchFailsBeforeTerraform ==
    \A p \in Procs :
        RegionMismatch(p) =>
            /\ run[p].pc \in {"checkPreTerraform", "done"}
            /\ run[p].pc = "done" => run[p].result # NoErr
            /\ CallsOf(p, "terraformClientFactory") = {}
            /\ CallsOf(p, "terraformClient.Apply") = {}

C1_Witness ==
    \E p \in Procs :
        RegionMismatch(p) /\ run[p].pc = "done" /\ run[p].result = "region error"

\* the run of p loaded a Configuration that has director certificates
LoadedDirectorCerts(p) ==
    Loaded(p) /\ run[p].loaded.DirectorCACert # NoPEM

\* C2: in a run whose loaded Configuration has a non-empty DirectorCACert the
\* certificate generator is never called for the director bundle, and the
\* run leaves DirectorCACert, DirectorCert and DirectorKey as they were, in
\* its Configuration and in the store.
C2_DirectorCertsGeneratedOnce ==
    \A p \in Procs :
        LoadedDirectorCerts(p) =>
            /\ NoDirectorGen(trace[p])
            /\ DirectorBundle(run[p].config) = DirectorBundle(run[p].loaded)
            /\ DirectorBundle(store.config) = DirectorBundle(run[p].loaded)

C2_Witness ==
    \E p \in Procs : LoadedDirectorCerts(p) /\ Succeeded(p)

\* the run of p was given no certificate, asks for the stored domain, and
\* loaded an application certificate with more than 28 days left
NothingToRenew(p) ==
    /\ Loaded(p)
    /\ run[p].args.TLSCert = NoPEM
    /\ run[p].args.Domain = run[p].loaded.Domain
    /\ run[p].loaded.ConcourseCert.kind = "cert"
    /\ run[p].loaded.ConcourseCert.notAfter - now > RenewalWindow

\* C3: in a run with no certificate supplied, a stored application
\* certificate with more than 28 days left and the domain unchanged, the
\* generator is not called for the application bundle, and ConcourseCert,
\* ConcourseKey and ConcourseCACert are after the run what they were before.
C3_ValidCertKept ==
    \A p \in Procs :
        NothingToRenew(p) =>
            /\ NoConcourseGen(trace[p])
            /\ ConcourseBundle(run[p].config) = ConcourseBundle(run[p].loaded)
            /\ ConcourseBundle(store.config) = ConcourseBundle(run[p].loaded)

C3_Witness ==
    \E p \in Procs : NothingToRenew(p) /\ Succeeded(p)

\* the stored application certificate is to be renewed at the certificate
\* step of p: it is empty, has 28 days or less left, or the domain changed
RenewalDue(p) ==
    LET stored == run[p].config.ConcourseCert IN
    \/ stored = NoPEM
    \/ stored.kind = "cert" /\ stored.notAfter - now <= RenewalWindow
    \/ run[p].args.Domain # run[p].loaded.Domain

\* the bundle is one the generator issued for the subjects, in the run of p
IssuedInRun(bundle, subjects, p) ==
    /\ <<bundle[1].kind, bundle[2].kind, bundle[3].kind>> = <<"cert", "key", "ca">>
    /\ \A i \in 1..3 :
          /\ bundle[i].issuer = "generator"
          /\ bundle[i].subject = subjects
          /\ bundle[i].serial = <<p, run[p].runs, "concourse">>

\* what the certificate step of p does
CertificateStep(p) ==
    LET r == run[p]
        after == run'[p]
        calls == trace'[p]
        last == calls[Len(calls)]
    IN  r.pc = "ensureConcourseCerts" /\ after.pc # "ensureConcourseCerts" =>
            IF r.args.TLSCert # NoPEM
            THEN /\ after.pc = "checkPreDeployUpdate"
                 /\ after.config.ConcourseCert = r.args.TLSCert
                 /\ after.config.ConcourseKey = r.args.TLSKey
                 /\ after.config.ConcourseUserProvidedCert
                 /\ NoConcourseGen(calls)
            ELSE RenewalDue(p) =>
                 /\ Len(calls) = Len(trace[p]) + 1
                 /\ IsConcourseGen(last)
                 /\ last.arg = <<r.config.Domain>>
                 /\ IF last.ok
                    THEN /\ after.pc = "checkPreDeployUpdate"
                         /\ after.config.Domain = r.config.Domain
                         /\ IssuedInRun(ConcourseBundle(after.config), <<r.config.Domain>>, p)
                    ELSE after.pc = "done" /\ after.result # NoErr

\* the Update that follows the certificate step stores what that step left
CertificatesStored(p) ==
    run[p].pc = "checkPreDeployUpdate" /\ run'[p].pc = "flyClientFactory" =>
        /\ ConcourseBundle(store'.config) = ConcourseBundle(run[p].config)
        /\ store'.config.ConcourseUserProvidedCert = run[p].config.ConcourseUserProvidedCert

\* C4: at the certificate step, a supplied TLS certificate and key become
\* ConcourseCert and ConcourseKey, ConcourseUserProvidedCert becomes true and
\* the generator is not called for the application bundle, whatever is
\* stored; with no certificate supplied and the stored certificate empty,
\* with 28 days or less left, or the domain changed, the generator is called
\* for the Configuration's domain and its bundle replaces ConcourseCert,
\* ConcourseKey and ConcourseCACert.
C4_CertificateDecision ==
    [][\A p \in Procs : CertificateStep(p) /\ CertificatesStored(p)]_vars

C4_Witness ==
    \E p \in Procs :
        /\ run[p].pc = "flyClientFactory"
        /\ run[p].args.TLSCert # NoPEM
        /\ run[p].loaded.ConcourseCert.issuer = "generator"
        /\ run[p].loaded.Domain # run[p].args.Domain
        /\ store.config.ConcourseCert = run[p].args.TLSCert

\* the run of p was given no certificate and loaded a Configuration whose
\* certificate is marked as the user's
UserCertStored(p) ==
    /\ Loaded(p)
    /\ run[p].loaded.ConcourseUserProvidedCert
    /\ run[p].args.TLSCert = NoPEM

\* the run of p has neither called the generator for the application bundle
\* nor changed ConcourseCert or ConcourseKey
UserCertUntouched(p) ==
    /\ NoConcourseGen(trace[p])
    /\ run[p].config.ConcourseCert = run[p].loaded.ConcourseCert
    /\ run[p].config.ConcourseKey = run[p].loaded.ConcourseKey
    /\ store.config.ConcourseCert = run[p].loaded.ConcourseCert
    /\ store.config.ConcourseKey = run[p].loaded.ConcourseKey

\* C5, as claimed: once ConcourseUserProvidedCert is stored as true, no run
\* without a TLS certificate calls the generator for the application bundle
\* or changes ConcourseCert or ConcourseKey, also when the domain argument
\* changed or the certificate has 28 days or less left.
C5_UserCertNeverRegenerated ==
    \A p \in Procs : UserCertStored(p) => UserCertUntouched(p)

\* C5, amended: once ConcourseUserProvidedCert is stored as true, a run
\* without a TLS certificate that asks for the stored domain and finds more
\* than 28 days left on the certificate neither calls the generator for the
\* application bundle nor changes ConcourseCert or ConcourseKey.
C5_UserCertKeptWhileValid ==
    \A p \in Procs :
        UserCertStored(p) /\ NothingToRenew(p) =>
            UserCertUntouched(p) /\ run[p].config.ConcourseUserProvidedCert

C5_Witness ==
    \E p \in Procs :
        /\ UserCertStored(p)
        /\ NothingToRenew(p)
        /\ Succeeded(p)
        /\ store.config.ConcourseCert = UserCert

\* the run of p is a self-update in which CanConnect answered false or failed
CannotConnect(p) ==
    /\ run[p].args.SelfUpdate
    /\ \E i \in CallsOf(p, "CanConnect") : ~trace[p][i].ok \/ trace[p][i].arg = FALSE

\* C6: in self-update mode, when CanConnect returns false or an error,
\* Deploy returns an error, and in that run SetDefaultPipeline and the BOSH
\* deployer's Deploy are never called and no asset is stored.
C6_SelfUpdateNeedsRunningConcourse ==
    \A p \in Procs :
        CannotConnect(p) =>
            /\ run[p].pc = "done"
            /\ run[p].result # NoErr
            /\ CallsOf(p, "SetDefaultPipeline") = {}
            /\ CallsOf(p, "boshClient.Deploy") = {}
            /\ CallsOf(p, "StoreAsset") = {}

C6_Witness ==
    \E p \in Procs :
        /\ run[p].args.SelfUpdate
        /\ run[p].pc = "done"
        /\ \E i \in CallsOf(p, "CanConnect") : trace[p][i].ok /\ trace[p][i].arg = FALSE

\* C7: in self-update mode the deployer's Deploy is called with detach =
\* true only, and only after a SetDefaultPipeline with allowVersionMismatch
\* = true has succeeded in the run; in fresh mode SetDefaultPipeline is
\* called with allowVersionMismatch = false only, and only after deployBosh
\* with detach = false has returned nil in the run.
C7_OrderOfDeployAndPipeline ==
    \A p \in Procs :
        LET tr == trace[p] IN
        IF run[p].args.SelfUpdate
        THEN /\ \A i \in CallsOf(p, "boshClient.Deploy") :
                    /\ tr[i].arg[3] = TRUE
                    /\ \E j \in 1..(i - 1) :
                          tr[j].op = "SetDefaultPipeline" /\ tr[j].arg = TRUE /\ tr[j].ok
             /\ \A i \in CallsOf(p, "SetDefaultPipeline") : tr[i].arg = TRUE
        ELSE /\ \A i \in CallsOf(p, "SetDefaultPipeline") :
                    /\ tr[i].arg = FALSE
                    /\ \E j \in 1..(i - 1) :
                          tr[j].op = "deployBosh returns" /\ tr[j].arg = FALSE /\ tr[j].ok
             /\ \A i \in CallsOf(p, "boshClient.Deploy") : tr[i].arg[3] = FALSE

C7_Witness ==
    \E p \in Procs :
        /\ run[p].args.SelfUpdate
        /\ Succeeded(p)
        /\ CallsOf(p, "boshClient.Deploy") # {}
        /\ CallsOf(p, "SetDefaultPipeline") # {}

\* the run of p repeats, with the same arguments, the successful run before
\* it, and finds more than 28 days left on the application certificate
RepeatedRun(p) ==
    /\ Loaded(p)
    /\ run[p].identicalRerun
    /\ run[p].loaded.ConcourseCert.kind = "cert"
    /\ run[p].loaded.ConcourseCert.notAfter - now > RenewalWindow

\* the sizes of the Configuration are those of the arguments
SizedAsAsked(config, args) ==
    /\ config.ConcourseWorkerCount = args.WorkerCount
    /\ config.ConcourseWorkerSize = args.WorkerSize
    /\ config.ConcourseWebSize = args.WebSize

\* C8: a second run with the arguments of a first successful run, against
\* the Configuration that run stored and with more than 28 days left on the
\* certificate, raises no region error, calls the generator neither for the
\* director bundle nor for the application bundle, and sets worker count,
\* worker size and web size to the argument values; for any arguments, a
\* run with no domain argument included.
C8_RepeatedRunGeneratesNothing ==
    \A p \in Procs :
        RepeatedRun(p) =>
            /\ run[p].result # "region error"
            /\ NoDirectorGen(trace[p])
            /\ NoConcourseGen(trace[p])
            /\ Succeeded(p) => SizedAsAsked(store.config, run[p].args)

\* the Metadata that terraform Output returned in the run of p
MetadataOfRun(p) ==
    {trace[p][i].arg : i \in {j \in CallsOf(p, "terraformClient.Output") : trace[p][j].ok}}

\* the run of p made the Configuration, had no domain argument and succeeded
FirstDeployWithoutDomain(p) ==
    /\ Loaded(p)
    /\ run[p].createdNewConfig
    /\ run[p].args.Domain = Empty
    /\ Succeeded(p)

\* the stored Configuration is that of a deployment reached by the IP of
\* the Metadata of the run of p, with a certificate generated for that IP
DeployedOnIP(p) ==
    \E m \in MetadataOfRun(p) :
        /\ store.config.Domain = m.ATCPublicIP
        /\ store.config.Region = run[p].args.AWSRegion
        /\ \E i \in 1..Len(trace[p]) :
              /\ IsConcourseGen(trace[p][i])
              /\ trace[p][i].ok
              /\ trace[p][i].arg = <<m.ATCPublicIP>>
        /\ IssuedInRun(ConcourseBundle(store.config), <<m.ATCPublicIP>>, p)

\* C9, as claimed: after a successful first-ever run with no domain
\* argument the stored Configuration has Domain equal to the ATC public IP
\* of the Metadata of that run and Region equal to the requested region, and
\* the application certificate was generated for that IP.
C9_FirstDeployOnIP ==
    \A p \in Procs : FirstDeployWithoutDomain(p) => DeployedOnIP(p)

\* C9, amended: the same, for a first-ever run with no domain argument and
\* no TLS certificate argument.
C9_FirstDeployOnIPWithoutUserCert ==
    \A p \in Procs :
        FirstDeployWithoutDomain(p) /\ run[p].args.TLSCert = NoPEM => DeployedOnIP(p)

C9_Witness ==
    \E p \in Procs :
        /\ FirstDeployWithoutDomain(p)
        /\ run[p].args.TLSCert = NoPEM
        /\ CallsOf(p, "boshClient.Deploy") # {}

\* the secrets-store fields of a Configuration
Credhub(config) ==
    <<config.CredhubCACert, config.CredhubPassword, config.CredhubURL,
      config.CredhubUsername>>

\* the error that the call at place i + k stands for, i being the place of
\* the deployer's Deploy
ErrorAfterDeploy(k) ==
    CASE k = 0 -> "bosh Deploy error"
      [] k = 1 -> "StoreAsset state error"
      [] k = 2 -> "StoreAsset creds error"

\* C10: once the deployer's Deploy has been called, StoreAsset is attempted
\* for the state blob and then for the credentials blob, with the blobs the
\* deployer returned, whether or not Deploy or the first StoreAsset failed;
\* deployBosh returns the first error of Deploy, the state StoreAsset and the
\* credentials StoreAsset, and then sets no secrets-store field.
C10_BothBlobsStoredFirstErrorReturned ==
    \A p \in Procs :
        \A i \in CallsOf(p, "boshClient.Deploy") :
            LET tr == trace[p]
                failed == {k \in 0..2 : ~tr[i + k].ok}
                first == CHOOSE k \in failed : \A j \in failed : k <= j
            IN  run[p].pc \notin {"storeState", "storeCreds"} =>
                    /\ Len(tr) >= i + 4
                    /\ tr[i + 1].op = "StoreAsset"
                    /\ tr[i + 1].arg = <<"director-state", tr[i].arg[4]>>
                    /\ tr[i + 2].op = "StoreAsset"
                    /\ tr[i + 2].arg = <<"director-creds", tr[i].arg[5]>>
                    /\ tr[i + 4].op = "deployBosh returns"
                    /\ failed # {} =>
                          /\ ~tr[i + 4].ok
                          /\ run[p].pc = "done"
                          /\ run[p].result = ErrorAfterDeploy(first)
                          /\ Credhub(run[p].config) = Credhub(run[p].loaded)

C10_Witness ==
    \E p \in Procs :
        \E i \in CallsOf(p, "boshClient.Deploy") :
            /\ run[p].pc = "done"
            /\ ~trace[p][i].ok
            /\ ~trace[p][i + 1].ok
            /\ trace[p][i + 2].op = "StoreAsset"
            /\ trace[p][i + 2].ok
            /\ assets.creds = trace[p][i].arg[5]

\* the run of p is inside deployBosh and holds a BOSH client
InDeployBosh(p) ==
    run[p].pc \in {"loadDirectorState", "loadDirectorCreds", "boshDeploy",
                   "storeState", "storeCreds"}

\* C11: on every exit path of a run, each client that was constructed in it
\* (terraform, fly, BOSH) has had Cleanup called exactly once when Deploy
\* returns, and never before; the terraform client is cleaned up before
\* applyTerraform returns (nothing but calls on it lie between its
\* construction and its Cleanup) and the BOSH client as the last thing
\* before deployBosh returns.
C11_EveryClientCleanedUpOnce ==
    \A p \in Procs :
        LET tr == trace[p]
            terraform == OKCalls(p, "terraformClientFactory")
            fly == OKCalls(p, "flyClientFactory")
            bosh == OKCalls(p, "buildBoshClient")
        IN  /\ Cardinality(CallsOf(p, "terraformClient.Cleanup")) = Cardinality(terraform)
            /\ \A i \in terraform :
                  \E j \in CallsOf(p, "terraformClient.Cleanup") :
                      /\ i < j
                      /\ \A k \in (i + 1)..(j - 1) :
                            tr[k].op \in {"terraformClient.Apply", "terraformClient.Output"}
            /\ Cardinality(CallsOf(p, "boshClient.Cleanup")) =
                  IF InDeployBosh(p) THEN 0 ELSE Cardinality(bosh)
            /\ \A j \in CallsOf(p, "boshClient.Cleanup") :
                  /\ \E i \in bosh : i < j
                  /\ tr[j + 1].op = "deployBosh returns"
            /\ \A j \in CallsOf(p, "deployBosh returns") :
                  (\E i \in bosh : i < j) => tr[j - 1].op = "boshClient.Cleanup"
            /\ Cardinality(CallsOf(p, "flyClient.Cleanup")) =
                  IF run[p].pc = "done" THEN Cardinality(fly) ELSE 0
            /\ \A j \in CallsOf(p, "flyClient.Cleanup") : j = Len(tr)

C11_Witness ==
    \E p \in Procs :
        /\ run[p].pc = "done"
        /\ run[p].result = "SetDefaultPipeline error"
        /\ ~run[p].args.SelfUpdate
        /\ OKCalls(p, "terraformClientFactory") # {}
        /\ OKCalls(p, "flyClientFactory") # {}
        /\ OKCalls(p, "buildBoshClient") # {}
        /\ CallsOf(p, "boshClient.Deploy") # {}

\* the calls that are made on collaborators (the trace also records the
\* returns of deployBosh, which are none)
CollaboratorOps ==
    {"LoadOrCreate", "stdout.Write", "stderr.Write", "FindUserIP", "Update",
     "FindLongestMatchingHostedZone", "terraformClientFactory", "terraformClient.Apply",
     "terraformClient.Output", "certGenerator", "flyClientFactory", "CanConnect",
     "SetDefaultPipeline", "buildBoshClient", "HasAsset", "LoadAsset",
     "boshClient.Deploy", "StoreAsset"}

\* the error that a failed call c returns
ErrorOf(c) ==
    CASE c.op = "LoadOrCreate" -> "LoadOrCreate error"
      [] c.op = "stdout.Write" -> "stdout error"
      [] c.op = "stderr.Write" -> "stderr error"
      [] c.op = "FindUserIP" -> "FindUserIP error"
      [] c.op = "Update" -> "Update error"
      [] c.op = "FindLongestMatchingHostedZone" -> "hosted zone error"
      [] c.op = "terraformClientFactory" -> "terraform factory error"
      [] c.op = "terraformClient.Apply" -> "terraform Apply error"
      [] c.op = "terraformClient.Output" -> "terraform Output error"
      [] c.op = "certGenerator" -> "certGenerator error"
      [] c.op = "flyClientFactory" -> "fly client error"
      [] c.op = "CanConnect" -> "CanConnect error"
      [] c.op = "SetDefaultPipeline" -> "SetDefaultPipeline error"
      [] c.op = "buildBoshClient" -> "bosh client error"
      [] c.op = "HasAsset" -> "HasAsset error"
      [] c.op = "LoadAsset" -> "LoadAsset error"
      [] c.op = "boshClient.Deploy" -> "bosh Deploy error"
      [] c.op = "StoreAsset" /\ c.arg[1] = "director-state" -> "StoreAsset state error"
      [] c.op = "StoreAsset" /\ c.arg[1] = "director-creds" -> "StoreAsset creds error"

\* what may follow a failed call in the trace of a run
CleanupOps ==
    {"terraformClient.Cleanup", "boshClient.Cleanup", "flyClient.Cleanup",
     "deployBosh returns"}

\* the first failed call on one of the collaborators ops ends the run of p:
\* Deploy returns its error, and after it come only Cleanup calls and, when it
\* is the deployer's Deploy or the first StoreAsset, the StoreAsset attempts
AbortsOnFirstError(p, ops) ==
    LET tr == trace[p]
        failed == {i \in 1..Len(tr) : tr[i].op \in ops /\ ~tr[i].ok}
        first == CHOOSE i \in failed : \A j \in failed : i <= j
    IN  failed # {} =>
            /\ run[p].pc \in {"done", "storeState", "storeCreds"}
            /\ run[p].pc = "done" => run[p].result = ErrorOf(tr[first])
            /\ \A k \in (first + 1)..Len(tr) :
                  \/ tr[k].op \in CleanupOps
                  \/ /\ tr[k].op = "StoreAsset"
                     /\ tr[first].op \in {"boshClient.Deploy", "StoreAsset"}

\* C12: when a collaborator call of a run returns an error (the config
\* store's LoadOrCreate, Update, HasAsset, LoadAsset or StoreAsset, the IP
\* resolver, the hosted-zone lookup, terraform, the certificate generator,
\* the fly client, the BOSH deployer, an output stream), Deploy returns that
\* first error and no later step runs, but for Cleanup calls and the two
\* StoreAsset attempts after the deployer call.
C12_FirstErrorAbortsRun ==
    \A p \in Procs : AbortsOnFirstError(p, CollaboratorOps)

\* the run of p was given no certificate, asks for the stored domain, and
\* loaded an application certificate that is not empty and cannot be parsed
MalformedCertStored(p) ==
    /\ Loaded(p)
    /\ run[p].args.TLSCert = NoPEM
    /\ run[p].args.Domain = run[p].loaded.Domain
    /\ run[p].loaded.ConcourseCert # NoPEM
    /\ run[p].loaded.ConcourseCert.kind # "cert"

\* the certificate step of p, on a stored certificate that cannot be parsed:
\* it calls the generator, and fails only when the generator does
RegeneratesMalformed(p) ==
    LET r == run[p]
        after == run'[p]
        calls == trace'[p]
        last == calls[Len(calls)]
    IN  MalformedCertStored(p) /\ r.pc = "ensureConcourseCerts"
            /\ after.pc # "ensureConcourseCerts" =>
            /\ Len(calls) = Len(trace[p]) + 1
            /\ IsConcourseGen(last)
            /\ last.arg = <<r.config.Domain>>
            /\ IF last.ok
               THEN /\ after.pc = "checkPreDeployUpdate"
                    /\ IssuedInRun(ConcourseBundle(after.config), <<r.config.Domain>>, p)
               ELSE after.pc = "done" /\ after.result = "certGenerator error"

\* a run of p that succeeded has stored a bundle generated in it
MalformedReplaced(p) ==
    MalformedCertStored(p) /\ Succeeded(p) =>
        IssuedInRun(ConcourseBundle(store.config), <<store.config.Domain>>, p)

\* C13: a stored application certificate that is not empty but cannot be
\* PEM-decoded or parsed counts as having no validity left: a run with no
\* certificate supplied and the domain unchanged calls the generator and
\* replaces the bundle, and returns no error on account of the certificate
\* (the step fails only when the generator fails).
C13_MalformedCertRegenerated ==
    /\ [][\A p \in Procs : RegeneratesMalformed(p)]_vars
    /\ [](\A p \in Procs : MalformedReplaced(p))

C13_Witness ==
    \E p \in Procs :
        /\ MalformedCertStored(p)
        /\ run[p].loaded.ConcourseCert = MalformedCert
        /\ Succeeded(p)
        /\ store.config.ConcourseCert.issuer = "generator"

\* the places in the trace of p where loading a prior blob failed
FailedLoads(p) ==
    {i \in CallsOf(p, "HasAsset") \cup CallsOf(p, "LoadAsset") : ~trace[p][i].ok}

\* C14: when HasAsset or LoadAsset fails while deployBosh loads the prior
\* state or credentials blob, the run goes on as with no prior blob: the
\* deployer's Deploy is called in it, with an empty blob in the place of the
\* one that failed to load.
C14_LoadErrorMeansNoPriorState ==
    \A p \in Procs :
        \A i \in FailedLoads(p) :
            \/ run[p].pc \in {"loadDirectorCreds", "boshDeploy"}
            \/ \E j \in CallsOf(p, "boshClient.Deploy") :
                  /\ i < j
                  /\ trace[p][i].arg = "director-state" => trace[p][j].arg[1] = NilBlob
                  /\ trace[p][i].arg = "director-creds" => trace[p][j].arg[2] = NilBlob

\* C15: in a run that is no self-update, when terraform Apply is about to be
\* called the stored Configuration has SourceAccessIP equal to the address
\* FindUserIP returned in the run; in a self-update run FindUserIP is not
\* called and SourceAccessIP is left as it was loaded.
C15_UserIPStoredBeforeTerraform ==
    \A p \in Procs :
        Loaded(p) =>
            IF run[p].args.SelfUpdate
            THEN /\ CallsOf(p, "FindUserIP") = {}
                 /\ run[p].config.SourceAccessIP = run[p].loaded.SourceAccessIP
                 /\ store.config.SourceAccessIP = run[p].loaded.SourceAccessIP
            ELSE run[p].pc = "applyTerraform" =>
                 /\ Cardinality(OKCalls(p, "FindUserIP")) = 1
                 /\ \A i \in OKCalls(p, "FindUserIP") :
                       /\ trace[p][i].arg # Empty
                       /\ store.config.SourceAccessIP = trace[p][i].arg
                       /\ run[p].config.SourceAccessIP = trace[p][i].arg

C15_Witness ==
    \E p \in Procs :
        /\ run[p].pc = "applyTerraform"
        /\ ~run[p].args.SelfUpdate
        /\ run[p].loaded.SourceAccessIP # store.config.SourceAccessIP
        /\ \E i \in OKCalls(p, "FindUserIP") :
              store.config.SourceAccessIP = trace[p][i].arg

\* the operations of the config store
StoreOps == {"LoadOrCreate", "Update", "HasAsset", "LoadAsset", "StoreAsset"}

\* the run of p got its fly client, and so came to the mode branch
ReachedModeBranch(p) == OKCalls(p, "flyClientFactory") # {}

\* the last operation on the config store in the run of p is an Update of
\* the Configuration the run ended with, made after the mode branch
EndsWithFinalUpdate(p) ==
    \E i \in CallsOf(p, "Update") :
        /\ \A j \in (i + 1)..Len(trace[p]) : trace[p][j].op \notin StoreOps
        /\ \E f \in OKCalls(p, "flyClientFactory") : f < i
        /\ trace[p][i].arg = run[p].config

\* C16: every run that reaches the mode branch ends with an Update of the
\* final Configuration as its last operation on the config store, whether
\* or not the step of the mode branch returned an error.
C16_FinalUpdateUnconditional ==
    \A p \in Procs :
        run[p].pc = "done" /\ ReachedModeBranch(p) => EndsWithFinalUpdate(p)

\* the runs of a and b were made one after the other
OneAfterTheOther(a, b) == a # b /\ run[a].alone /\ run[b].alone

\* the store is as after the run of a and then the run of b: b started from
\* the Configuration a ended with, and the store holds what b ended with
SerialOutcome(a, b) ==
    /\ run[b].loaded = run[a].config
    /\ store.config = run[b].config

\* the hosted zone that the run of a persisted for its domain is in the store
HostedZoneKept(a) ==
    run[a].args.Domain # Empty =>
        /\ store.config.HostedZoneID = run[a].config.HostedZoneID
        /\ store.config.HostedZoneRecordPrefix = run[a].config.HostedZoneRecordPrefix

\* C17: two runs against the same deployment are safe only when they are
\* serialised.  When two successful runs were made one after the other, the
\* store holds the outcome of one of the two sequential orders, and in it
\* the hosted zone that either run persisted; no step takes a lock, and
\* when the steps of the two runs interleave there is an interleaving
\* (C17_Witness) after which the stored Configuration is the outcome of
\* neither order and an update of one run is lost.
C17_OnlySerialRunsAreSafe ==
    \A a, b \in Procs :
        OneAfterTheOther(a, b) /\ Succeeded(a) /\ Succeeded(b) =>
            /\ SerialOutcome(a, b) \/ SerialOutcome(b, a)
            /\ HostedZoneKept(a)
            /\ HostedZoneKept(b)

C17_Witness ==
    \E a, b \in Procs :
        /\ a # b
        /\ Succeeded(a)
        /\ Succeeded(b)
        /\ ~run[b].alone
        /\ ~SerialOutcome(a, b)
        /\ ~SerialOutcome(b, a)
        /\ run[a].args.Domain # Empty
        /\ run[a].config.HostedZoneID # ""
        /\ store.config.HostedZoneID = ""

\* the run of p had a domain argument and no certificate, and succeeded
DomainDeployed(p) ==
    /\ Succeeded(p)
    /\ run[p].args.Domain # Empty
    /\ run[p].args.TLSCert = NoPEM

\* the stored application certificate is one for the stored Domain
CertificateForDomain(config) ==
    /\ config.ConcourseCert.kind = "cert"
    /\ config.ConcourseCert.subject = <<config.Domain>>

\* C18: over any sequence of runs, failed runs that are run again with the
\* same arguments included, when a run with a domain argument and no
\* certificate supplied returns success the stored application certificate
\* is one for the current Domain of the Configuration; a run that persists
\* the new domain in setHostedZone and then fails does not make the next run
\* keep the certificate of the old domain.
C18_CertificateFollowsDomain ==
    \A p \in Procs : DomainDeployed(p) => CertificateForDomain(store.config)

\* the certificate of the Configuration is one a user passed as --tls-cert
UserSuppliedCert(config) == config.ConcourseCert.issuer = "user"

\* C19: in every persisted Configuration, ConcourseUserProvidedCert is true
\* exactly when the stored ConcourseCert is a certificate the user supplied
\* through the TLS arguments; a run that replaces the bundle with a
\* generated certificate leaves the flag false.
C19_FlagTellsUserCert ==
    store.config.ConcourseUserProvidedCert <=> UserSuppliedCert(store.config)

\* the places in the trace of p of a deployer call that succeeded, was
\* followed by two successful StoreAsset calls, and returned credentials
\* that can be parsed
CredsStored(p) ==
    {i \in OKCalls(p, "boshClient.Deploy") :
        /\ Len(trace[p]) >= i + 2
        /\ trace[p][i + 1].ok
        /\ trace[p][i + 2].op = "StoreAsset"
        /\ trace[p][i + 2].ok
        /\ YamlValid(trace[p][i].arg[5])}

\* the secrets-store fields that deployBosh derives from the blob creds
CredhubOf(creds, metadata) ==
    <<YamlCACert(creds), YamlPassword(creds), <<"https", metadata.ATCPublicIP, "8844">>,
      "credhub-cli">>

\* C20: when a run has stored the credentials blob of a successful deployer
\* call, the secrets-store fields derived from the blob (CredhubPassword,
\* CredhubCACert, CredhubURL, CredhubUsername) are in the persisted
\* Configuration when Deploy returns, also when a later step of the run
\* (SetDefaultPipeline, the success message, the upgrade message) failed;
\* but for a run whose last Update itself failed.
C20_CredhubFieldsPersisted ==
    \A p \in Procs :
        run[p].pc = "done" /\ run[p].result # "Update error" =>
            \A i \in CredsStored(p) :
                Credhub(store.config) = CredhubOf(trace[p][i].arg[5], run[p].metadata)

====
